---- MODULE Spec2Model ----
(***************************************************************************)
(* Eko-Kampus mobile client: the session token lifecycle.                  *)
(*                                                                         *)
(* AuthProvider (context/AuthContext) keeps userToken / isLoading in       *)
(* memory and persists the token with AsyncStorage under 'userToken'.      *)
(* apiClient (api/client) reads the persisted token in a request           *)
(* interceptor and sets the Authorization header.  The screens call        *)
(* login / logout and issue requests through apiClient.                    *)
(*                                                                         *)
(* AsyncStorage calls are asynchronous: a call is issued by JS, executed   *)
(* by the native module (serially, in issue order), and its promise is     *)
(* settled on the JS thread later (in the same order).  The model keeps    *)
(* the two queues, so the window between the storage effect and the        *)
(* continuation that updates React state is visible.  Any call may be      *)
(* rejected by the storage medium; a rejected call writes nothing.         *)
(*                                                                         *)
(* The root navigator (the Navigation Gate) follows section 4.4 of the     *)
(* design specification: Gate.  LoginScreen lives                          *)
(* in the auth flow and the tabs in the main flow, so handleLogin can run  *)
(* only while the gate shows AuthFlow and the tab effects and              *)
(* handleLogout only while it shows MainFlow.                              *)
(*                                                                         *)
(* The specifications:                                                     *)
(*   Spec, SpecReliable  the session from process start: startup read,     *)
(*                       login, logout, tab fetches, restart;              *)
(*   SpecRun             one process run of the same, with the storage     *)
(*                       module and the startup promise chain making       *)
(*                       progress (weak fairness);                         *)
(*   SpecScreens         the handlers of one screen at a time, from a      *)
(*                       settled session: Login, Register, the tabs,       *)
(*                       HomeScreen and DetectiveScreen with their photo   *)
(*                       flow, every request going through apiClient;      *)
(*   SpecReports         DetectiveScreen's map and report list: mount,     *)
(*                       locate-me, submit and re-fetch, with two          *)
(*                       requests on the network;                          *)
(*   SpecBounty          renderTask of BountyScreen on every task.         *)
(***************************************************************************)
EXTENDS Integers, Naturals, Sequences, FiniteSets, TLC

\* ---------------------------------------------------------------- bounds
\* Most AsyncStorage calls issued and not yet settled on the JS thread.
MaxPending == 2
\* Most HTTP requests sent and not yet answered.
MaxNet == 1

\* ---------------------------------------------------------------- values
\* Bearer tokens the remote API can hand out (response.data.access).
Tokens == {"tokA", "tokB"}
\* JS null: AsyncStorage.getItem of a missing key, useState<string|null>(null).
Null == "<null>"
MaybeToken == Tokens \cup {Null}

\* `${x}` in a template literal: null prints as the text "null".
TemplateStr(x) == IF x = Null THEN "null" ELSE x

\* No Authorization header on the request config.
NoHeader == <<>>
\* `Bearer ${x}`
Bearer(x) == <<"Bearer", TemplateStr(x)>>

\* if (token) ...  : JS truthiness of string | null.
Truthy(x) == x # Null /\ x # ""

VARIABLES
    store,          \* AsyncStorage value under TOKEN_KEY ('userToken')
    userToken,      \* AuthProvider useState: string | null
    isLoading,      \* AuthProvider useState: boolean
    initPhase,      \* position of the useEffect promise chain
    storageQueue,   \* AsyncStorage calls issued, not yet executed natively
    callbackQueue,  \* AsyncStorage calls executed, promise not yet settled in JS
    net,            \* requests sent by axios, not yet answered
    loginLoading,   \* LoginScreen useState loading
    mounted,        \* tab screens mounted (their mount effect has run)
    tabLoading,     \* mounted tab screens whose useState loading is true
    lastSent,       \* the request most recently handed to the network
    loggedIn,       \* token of the last login call once it has completed; Null
                    \* from the moment a later login or logout call starts
    lastEvent,      \* what the most recent step did
    focus,          \* the screen whose handlers the run exercises ("" : none)
    home,           \* HomeScreen useState: binId, wasteCategory, loading, image*
    det,            \* DetectiveScreen useState, and whether it is mounted
    reg,            \* RegisterScreen useState
    photo,          \* the pickImage / takePhoto call in progress, if any
    perms,          \* what the OS holds for the camera and the photo library
    alert,          \* the most recent Alert.alert call of the screen in focus
    task,           \* BountyScreen: the item handed to renderTask
    rendered        \* BountyScreen: what renderTask put on the card

authVars == <<store, userToken, isLoading, initPhase, storageQueue, callbackQueue,
              net, loginLoading, mounted, tabLoading, lastSent, loggedIn, lastEvent>>
screenVars == <<focus, home, det, reg, photo, perms, alert, task, rendered>>
vars == <<authVars, screenVars>>

\* ------------------------------------------------------- derived views
\* What a consumer of useAuth() reads from { userToken, isLoading }.
Session(tag, token) == [tag |-> tag, token |-> token]
SessionState ==
    IF isLoading THEN Session("loading", Null)
    ELSE IF userToken # Null THEN Session("authenticated", userToken)
    ELSE Session("unauthenticated", Null)

\* The root navigator that chooses between the auth stack and the tabs.
Gate(loading, token) ==
    IF loading THEN "Loading"
    ELSE IF token # Null THEN "MainFlow"
    ELSE "AuthFlow"
NavGate == Gate(isLoading, userToken)

\* Tab screens whose mount effect issues a request through apiClient.
TabScreens == {"Profile", "Leaderboard", "Bounty"}

\* ------------------------------------------------------------ records
\* The JSON body of a POST, as far as the screens fill it in.
Body(bin, category, location, description, photoBase64) ==
    [bin |-> bin, waste_category |-> category, location |-> location,
     description |-> description, photo_base64 |-> photoBase64]
NoBody == Body(<<>>, "", Null, <<>>, Null)

ApiRequest(method, path, screenAuth, body) ==
    [method |-> method, path |-> path, screenAuth |-> screenAuth, body |-> body,
     issuedIn |-> SessionState, loggedIn |-> loggedIn, alive |-> TRUE]
\* A request whose body the model does not look at.
Request(path, screenAuth) ==
    ApiRequest(IF path \in {"auth/login/", "auth/register/"} THEN "POST" ELSE "GET",
               path, screenAuth, NoBody)
NoRequest ==
    [method |-> "", path |-> "", screenAuth |-> NoHeader, body |-> NoBody,
     issuedIn |-> Session("none", Null), loggedIn |-> Null, alive |-> TRUE]

\* One AsyncStorage call: getItem (init, request), setItem (login),
\* removeItem (logout).  pre is userToken when the call was made.
Op(kind, tok, req) == [kind |-> kind, tok |-> tok, req |-> req, pre |-> userToken]

Sent(req, header) == [req |-> req, header |-> header]
NoSent == Sent(NoRequest, NoHeader)

\* type: what happened; tok: login's argument (for "sent": the value the
\* interceptor read); pre: userToken when the call
\* was made; was: userToken just before the step.
Event(type, tok, pre, was) == [type |-> type, tok |-> tok, pre |-> pre, was |-> was]
Other == Event("other", Null, Null, Null)

Pending == Len(storageQueue) + Len(callbackQueue)

\* The useEffect chain is between its .then and its .finally callback: the
\* .finally callback is the next microtask, no other JS callback runs first.
JsIdle == initPhase \notin {"fulfilled", "rejected"}

RemoveAt(seq, i) == SubSeq(seq, 1, i - 1) \o SubSeq(seq, i + 1, Len(seq))

\* Mutant of InitialLoading: useState(false).
InitialLoading_False == FALSE

\* const [isLoading, setIsLoading] = useState(true)
InitialLoading == TRUE

\* ------------------------------------------------------ screen values
\* Texts typed into a TextInput: empty, blank, visible, visible after a blank.
Texts == {<<>>, <<" ">>, <<"b">>, <<" ", "b">>}
EmptyText == <<>>
\* Descriptions typed into the Detective modal.
DescriptionInputs == {<<>>, <<"b">>}

\* String.prototype.trim on a text.
RECURSIVE TrimStart(_)
TrimStart(s) ==
    IF s # <<>> /\ Head(s) = " " THEN TrimStart(Tail(s)) ELSE s
RECURSIVE TrimEnd(_)
TrimEnd(s) ==
    IF s # <<>> /\ s[Len(s)] = " " THEN TrimEnd(SubSeq(s, 1, Len(s) - 1)) ELSE s
Trim(s) == TrimEnd(TrimStart(s))

\* const WASTE_CATEGORIES
WASTE_CATEGORIES == {"PLASTIC", "PAPER", "GLASS", "ORGANIC"}
\* The category buttons the runs press.
CategoryInputs == {"PLASTIC", "GLASS"}

\* What ImagePicker hands back: canceled, or assets[0] with its uri and,
\* possibly, its base64 text.
NoBase64 == "<undefined>"
PickerResults ==
    {[canceled |-> TRUE, uri |-> "", base64 |-> NoBase64],
     [canceled |-> FALSE, uri |-> "file://photo", base64 |-> "b64"],
     [canceled |-> FALSE, uri |-> "file://photo", base64 |-> NoBase64]}

\* asset.base64 ?? dflt
Coalesce(x, dflt) == IF x = NoBase64 \/ x = Null THEN dflt ELSE x

\* Points of the map the user can tap (event.nativeEvent.coordinate).
Coordinates == {"P1"}

\* Report lists the server can answer GET detective/reports/ with.
ReportLists == {<<>>, <<"r1">>}

\* Alert.alert(title, message)
Alert(title, message) == [title |-> title, message |-> message]
NoAlert == Alert("", "")
PermissionAlert == Alert("Izin Gerekli", "Kamera erisimi icin izin vermeniz gerekiyor.")
ErrorAlert == Alert("Hata", "error.response.data | Bir hata olustu.")

\* A pickImage / takePhoto call: which picker it is for and where it stands.
PhotoCall(source, phase) == [source |-> source, phase |-> phase]
NoPhotoCall == PhotoCall("", "idle")

\* useState initial values of the screens.
HomeFresh ==
    [binId |-> EmptyText, wasteCategory |-> "PLASTIC", loading |-> FALSE,
     imageUri |-> Null, imageBase64 |-> Null]
DetectiveFresh ==
    [mounted |-> FALSE, locating |-> "idle", selectedLocation |-> Null,
     userLocation |-> Null,
     reports |-> <<>>, modalVisible |-> FALSE, description |-> EmptyText,
     imageUri |-> "", imageBase64 |-> "", loading |-> FALSE,
     overtaken |-> 0]
RegisterFresh ==
    [firstName |-> EmptyText, lastName |-> EmptyText, email |-> EmptyText,
     password |-> EmptyText, loading |-> FALSE]

\* BountyScreen: a Task's current and target, and a card not drawn yet.
Task(current, target) == [current |-> current, target |-> target]
Card(done, completed, target) ==
    [drawn |-> TRUE, done |-> done, completed |-> completed, target |-> target]
NotRendered == [drawn |-> FALSE, done |-> FALSE, completed |-> 0, target |-> 0]

\* No screen has been touched yet.
ScreensFresh ==
    /\ home = HomeFresh
    /\ det = DetectiveFresh
    /\ reg = RegisterFresh
    /\ photo = NoPhotoCall
    /\ alert = NoAlert
    /\ task = Task(0, 0)
    /\ rendered = NotRendered

\* ---------------------------------------------------------------- Init
\* Process start: AuthProvider mounts, its effect has called getItem.  The
\* store holds whatever an earlier run of the app left there.
Init ==
    /\ store \in MaybeToken
    /\ userToken = Null
    /\ isLoading = InitialLoading
    /\ initPhase = "reading"
    /\ storageQueue = <<[kind |-> "init", tok |-> Null, req |-> NoRequest, pre |-> Null]>>
    /\ callbackQueue = <<>>
    /\ net = <<>>
    /\ loginLoading = FALSE
    /\ mounted = {}
    /\ tabLoading = {}
    /\ lastSent = NoSent
    /\ loggedIn = Null
    /\ lastEvent = Event("start", Null, Null, Null)
    /\ focus = ""
    /\ perms = [camera |-> "granted", library |-> "granted", location |-> "granted"]
    /\ ScreensFresh

\* ------------------------------------------------------- AsyncStorage
\* Mutant of StorageEffect: setItem writes under another key, so the value
\* under TOKEN_KEY is never replaced by login.
StorageEffect_NoWrite(op, s) ==
    CASE op.kind = "logout" -> Null
      [] OTHER -> s

\* Mutant of StorageEffect: getItem written as a take, the key is gone after
\* every read.
StorageEffect_Take(op, s) ==
    CASE op.kind = "login" -> op.tok
      [] OTHER -> Null

\* Effect of one call on the persisted value s.
StorageEffect(op, s) ==
    CASE op.kind = "login" -> op.tok          \* setItem(TOKEN_KEY, token)
      [] op.kind = "logout" -> Null           \* removeItem(TOKEN_KEY)
      [] OTHER -> s                           \* getItem

\* Value the promise resolves with, s being the persisted value.
StorageResult(op, s) ==
    IF op.kind \in {"init", "request"} THEN s ELSE Null

\* The native module runs the oldest issued call to completion.
StorageExecOk ==
    /\ storageQueue # <<>>
    /\ LET op == Head(storageQueue) IN
        /\ store' = StorageEffect(op, store)
        /\ callbackQueue' =
             Append(callbackQueue, [op |-> op, ok |-> TRUE, value |-> StorageResult(op, store)])
    /\ storageQueue' = Tail(storageQueue)
    /\ lastEvent' = Other
    /\ UNCHANGED <<userToken, isLoading, initPhase, net, loginLoading, mounted, tabLoading,
                   lastSent, loggedIn>>
    /\ UNCHANGED screenVars

\* The storage medium fails the oldest issued call: nothing is written.
StorageExecFail ==
    /\ storageQueue # <<>>
    /\ callbackQueue' =
         Append(callbackQueue, [op |-> Head(storageQueue), ok |-> FALSE, value |-> Null])
    /\ storageQueue' = Tail(storageQueue)
    /\ lastEvent' = Other
    /\ UNCHANGED <<store, userToken, isLoading, initPhase, net, loginLoading,
                   mounted, tabLoading, lastSent, loggedIn>>
    /\ UNCHANGED screenVars

\* ------------------------------------------------------- AuthProvider
\* useEffect: .then((token) => setUserToken(token))
InitThen ==
    /\ callbackQueue # <<>>
    /\ Head(callbackQueue).op.kind = "init"
    /\ Head(callbackQueue).ok
    /\ userToken' = Head(callbackQueue).value
    /\ initPhase' = "fulfilled"
    /\ callbackQueue' = Tail(callbackQueue)
    /\ lastEvent' = Other
    /\ UNCHANGED <<store, isLoading, storageQueue, net, loginLoading, mounted, tabLoading,
                   lastSent, loggedIn>>
    /\ UNCHANGED screenVars

\* useEffect: getItem rejected, the .then callback is skipped.
InitRejected ==
    /\ callbackQueue # <<>>
    /\ Head(callbackQueue).op.kind = "init"
    /\ ~Head(callbackQueue).ok
    /\ initPhase' = "rejected"
    /\ callbackQueue' = Tail(callbackQueue)
    /\ lastEvent' = Other
    /\ UNCHANGED <<store, userToken, isLoading, storageQueue, net, loginLoading,
                   mounted, tabLoading, lastSent, loggedIn>>
    /\ UNCHANGED screenVars

\* Mutant of InitFinally: setIsLoading(false) chained with .then, so a
\* rejected read skips it.
InitFinally_ThenOnly ==
    /\ initPhase \in {"fulfilled", "rejected"}
    /\ isLoading' = (IF initPhase = "fulfilled" THEN FALSE ELSE isLoading)
    /\ initPhase' = "done"
    /\ lastEvent' = Event(IF initPhase = "fulfilled" THEN "init_ok" ELSE "init_failed",
                          Null, Null, userToken)
    /\ UNCHANGED <<store, userToken, storageQueue, callbackQueue, net, loginLoading,
                   mounted, tabLoading, lastSent, loggedIn>>
    /\ UNCHANGED screenVars

\* useEffect: .finally(() => setIsLoading(false))
InitFinally ==
    /\ initPhase \in {"fulfilled", "rejected"}
    /\ isLoading' = FALSE
    /\ initPhase' = "done"
    /\ lastEvent' = Event(IF initPhase = "fulfilled" THEN "init_ok" ELSE "init_failed",
                          Null, Null, userToken)
    /\ UNCHANGED <<store, userToken, storageQueue, callbackQueue, net, loginLoading,
                   mounted, tabLoading, lastSent, loggedIn>>
    /\ UNCHANGED screenVars

\* Mutant of LoginContinuation: setUserToken(token) is forgotten.
LoginContinuation_NoUpdate(c, u) == u

\* Mutant of LoginContinuation: setUserToken(token) runs whether or not the
\* write succeeded (the state update placed before the await).
LoginContinuation_Eager(c, u) == c.op.tok

\* login: the code after `await AsyncStorage.setItem(TOKEN_KEY, token)`; u is
\* userToken before it, the result is userToken after it.
LoginContinuation(c, u) == IF c.ok THEN c.op.tok ELSE u

\* Mutant of LogoutContinuation: setUserToken(null) is forgotten.
LogoutContinuation_Keep(c, u) == u

\* Mutant of LogoutContinuation: logout written as a toggle of the session.
LogoutContinuation_Toggle(c, u) ==
    IF c.ok THEN (IF u = Null THEN "tokA" ELSE Null) ELSE u

\* logout: the code after `await AsyncStorage.removeItem(TOKEN_KEY)`.
LogoutContinuation(c, u) == IF c.ok THEN Null ELSE u

\* login(token) resumes; handleLogin's catch / finally follow it.
LoginResume ==
    /\ JsIdle
    /\ callbackQueue # <<>>
    /\ Head(callbackQueue).op.kind = "login"
    /\ LET c == Head(callbackQueue) IN
        /\ userToken' = LoginContinuation(c, userToken)
        /\ loggedIn' = IF c.ok THEN c.op.tok ELSE loggedIn
        /\ lastEvent' = Event(IF c.ok THEN "login_ok" ELSE "login_failed",
                              c.op.tok, c.op.pre, userToken)
    /\ loginLoading' = FALSE
    /\ callbackQueue' = Tail(callbackQueue)
    /\ UNCHANGED <<store, isLoading, initPhase, storageQueue, net, mounted, tabLoading, lastSent>>
    /\ UNCHANGED screenVars

\* logout() as one call on st = [store, userToken, isLoading]: removeItem, then
\* (when it did not fail) the continuation.
LogoutOp == [kind |-> "logout", tok |-> Null, req |-> NoRequest, pre |-> Null]
LogoutRun(st, ok) ==
    [store |-> IF ok THEN StorageEffect(LogoutOp, st.store) ELSE st.store,
     userToken |-> LogoutContinuation([op |-> LogoutOp, ok |-> ok, value |-> Null],
                                      st.userToken),
     isLoading |-> st.isLoading]

\* Path and Authorization header of the request a tab's mount effect issues.
MountPath(s) ==
    CASE s = "Profile" -> "auth/me/"
      [] s = "Leaderboard" -> "auth/leaderboard/"
      [] OTHER -> "reports/tasks/"
MountAuth(s) ==
    IF s \in {"Profile", "Leaderboard"} THEN Bearer(userToken) ELSE NoHeader
TabPaths == {MountPath(s) : s \in TabScreens}
\* The tab whose mount effect requests path.
TabOf(path) == CHOOSE s \in TabScreens : MountPath(s) = path
\* Mutant of TabSettled: the chain has no .finally, loading is never reset.
TabSettled_Never(req, loading) == loading

\* .finally(() => setLoading(false)) of the tab that issued req.
TabSettled(req, loading) == IF req.alive THEN loading \ {TabOf(req.path)} ELSE loading

\* The tab screens are unmounted: a request one of them issued still settles,
\* but its callbacks set the state of a component that is gone.
Unmounted(req) == IF req.path \in TabPaths THEN [req EXCEPT !.alive = FALSE] ELSE req
UnmountOps(q) == [k \in 1..Len(q) |-> [q[k] EXCEPT !.req = Unmounted(@)]]
UnmountCallbacks(q) == [k \in 1..Len(q) |-> [q[k] EXCEPT !.op.req = Unmounted(@)]]
UnmountSent(q) == [k \in 1..Len(q) |-> [q[k] EXCEPT !.req = Unmounted(@)]]

\* logout() resumes.  When the token becomes null the tabs are unmounted.
LogoutResume ==
    /\ JsIdle
    /\ callbackQueue # <<>>
    /\ Head(callbackQueue).op.kind = "logout"
    /\ LET c == Head(callbackQueue) IN
        /\ userToken' = LogoutContinuation(c, userToken)
        /\ mounted' = IF c.ok THEN {} ELSE mounted
        /\ tabLoading' = IF c.ok THEN {} ELSE tabLoading
        /\ storageQueue' = IF c.ok THEN UnmountOps(storageQueue) ELSE storageQueue
        /\ callbackQueue' = IF c.ok THEN UnmountCallbacks(Tail(callbackQueue))
                                    ELSE Tail(callbackQueue)
        /\ net' = IF c.ok THEN UnmountSent(net) ELSE net
        /\ lastEvent' = Event(IF c.ok THEN "logout_ok" ELSE "logout_failed",
                              Null, c.op.pre, userToken)
    /\ UNCHANGED <<store, isLoading, initPhase, loginLoading, lastSent, loggedIn>>
    /\ UNCHANGED screenVars

\* ---------------------------------------------------------- apiClient
\* Mutant of Interceptor: the `if (token)` test is dropped.
Interceptor_Unconditional(req, token) == Bearer(token)

\* Request interceptor, after `await AsyncStorage.getItem('userToken')`:
\* if (token) config.headers.Authorization = `Bearer ${token}`.
Interceptor(req, token) ==
    IF Truthy(token) THEN Bearer(token) ELSE req.screenAuth

\* The interceptor resumes and axios hands the request to the network.
InterceptorResumeUpTo(capacity) ==
    /\ JsIdle
    /\ callbackQueue # <<>>
    /\ Head(callbackQueue).op.kind = "request"
    /\ Head(callbackQueue).ok
    /\ Len(net) < capacity
    /\ LET c == Head(callbackQueue)
           out == Sent(c.op.req, Interceptor(c.op.req, c.value)) IN
        /\ net' = Append(net, out)
        /\ lastSent' = Sent([c.op.req EXCEPT !.body = NoBody], out.header)
    /\ callbackQueue' = Tail(callbackQueue)
    /\ lastEvent' = Event("sent", Head(callbackQueue).value, Null, Null)
    /\ UNCHANGED <<store, userToken, isLoading, initPhase, storageQueue, loginLoading,
                   mounted, tabLoading, loggedIn>>
    /\ UNCHANGED screenVars

InterceptorResume == InterceptorResumeUpTo(MaxNet)

\* getItem rejected inside the interceptor: the request is never sent and the
\* caller's promise rejects (handleLogin: catch, then finally setLoading(false)).
InterceptorReject ==
    /\ JsIdle
    /\ callbackQueue # <<>>
    /\ Head(callbackQueue).op.kind = "request"
    /\ ~Head(callbackQueue).ok
    /\ Head(callbackQueue).op.req.path \in TabPaths \cup {"auth/login/"}
    /\ loginLoading' =
         IF Head(callbackQueue).op.req.path = "auth/login/" THEN FALSE ELSE loginLoading
    /\ tabLoading' =
         IF Head(callbackQueue).op.req.path \in TabPaths
         THEN TabSettled(Head(callbackQueue).op.req, tabLoading) ELSE tabLoading
    /\ callbackQueue' = Tail(callbackQueue)
    /\ lastEvent' = Event("request_rejected", Null, Null, userToken)
    /\ UNCHANGED <<store, userToken, isLoading, initPhase, storageQueue, net, mounted,
                   lastSent, loggedIn>>
    /\ UNCHANGED screenVars

\* Mutant of SubmitEnabled: the button is not disabled while loading.
SubmitEnabled_Always(loading) == TRUE

\* disabled={loading} on a screen's submit button.
SubmitEnabled(loading) == ~loading

\* apiClient.get / apiClient.post: the interceptor's getItem is issued.
IssueRequest(path, screenAuth) ==
    storageQueue' = Append(storageQueue, Op("request", Null, Request(path, screenAuth)))

\* --------------------------------------------------------- LoginScreen
\* if (!email.trim() || !password): the password is not trimmed.
LoginFieldMissing_NoTrim(email, password) ==
    \/ email = EmptyText
    \/ password = EmptyText

LoginFieldMissing(email, password) ==
    \/ Trim(email) = EmptyText
    \/ password = EmptyText

\* handleLogin, the 'Giris Yap' button (disabled while loading), pressed with
\* email and password in the two inputs, up to the first await.
HandleLogin(email, password) ==
    /\ JsIdle
    /\ NavGate = "AuthFlow"
    /\ SubmitEnabled(loginLoading)
    /\ IF LoginFieldMissing(email, password)
       THEN /\ alert' = Alert("Hata", "E-posta ve sifre alanlarini doldurun.")
            /\ lastEvent' = Event("login_invalid", Null, Null, userToken)
            /\ UNCHANGED <<loginLoading, storageQueue>>
       ELSE /\ Pending < MaxPending
            /\ loginLoading' = TRUE
            /\ IssueRequest("auth/login/", NoHeader)
            /\ alert' = NoAlert
            /\ lastEvent' = Event("login_submit", Null, Null, userToken)
    /\ UNCHANGED <<store, userToken, isLoading, initPhase, callbackQueue, net, mounted, tabLoading,
                   lastSent, loggedIn>>
    /\ UNCHANGED <<focus, home, det, reg, photo, perms, task, rendered>>

\* POST auth/login/ answered 2xx with an access token: login(response.data.access)
\* runs up to its await.
LoginResponseOk(i, t) ==
    /\ JsIdle
    /\ i \in 1..Len(net)
    /\ net[i].req.path = "auth/login/"
    /\ Pending < MaxPending
    /\ storageQueue' = Append(storageQueue, Op("login", t, NoRequest))
    /\ net' = RemoveAt(net, i)
    /\ loggedIn' = Null
    /\ lastEvent' = Event("login_called", t, userToken, userToken)
    /\ UNCHANGED <<store, userToken, isLoading, initPhase, callbackQueue, loginLoading,
                   mounted, tabLoading, lastSent>>
    /\ UNCHANGED screenVars

\* POST auth/login/ failed (non-2xx or transport): catch, finally.
LoginResponseError(i) ==
    /\ JsIdle
    /\ i \in 1..Len(net)
    /\ net[i].req.path = "auth/login/"
    /\ loginLoading' = FALSE
    /\ net' = RemoveAt(net, i)
    /\ lastEvent' = Event("response_error", Null, Null, userToken)
    /\ UNCHANGED <<store, userToken, isLoading, initPhase, storageQueue, callbackQueue,
                   mounted, tabLoading, lastSent, loggedIn>>
    /\ UNCHANGED screenVars

\* -------------------------------------------------------- tab screens

\* The user opens a tab for the first time: its mount effect runs.
MountScreen(s) ==
    /\ JsIdle
    /\ NavGate = "MainFlow"
    /\ s \in TabScreens \ mounted
    /\ Pending < MaxPending
    /\ mounted' = mounted \cup {s}
    /\ tabLoading' = tabLoading \cup {s}
    /\ IssueRequest(MountPath(s), MountAuth(s))
    /\ lastEvent' = Other
    /\ UNCHANGED <<store, userToken, isLoading, initPhase, callbackQueue, net,
                   loginLoading, lastSent, loggedIn>>
    /\ UNCHANGED screenVars

\* Mutant of TabResponse: a response handler that sends the request again.
TabResponse_Retry(i) ==
    /\ JsIdle
    /\ i \in 1..Len(net)
    /\ net[i].req.path \in TabPaths
    /\ Pending < MaxPending
    /\ net' = RemoveAt(net, i)
    /\ storageQueue' = Append(storageQueue, Op("request", Null, net[i].req))
    /\ lastEvent' = Event("response_error", Null, Null, userToken)
    /\ UNCHANGED <<store, userToken, isLoading, initPhase, callbackQueue,
                   loginLoading, mounted, tabLoading, lastSent, loggedIn>>
    /\ UNCHANGED screenVars

\* A tab request is answered (2xx or not): the screen keeps the result locally.
TabResponse(i) ==
    /\ JsIdle
    /\ i \in 1..Len(net)
    /\ net[i].req.path \in TabPaths
    /\ net' = RemoveAt(net, i)
    /\ tabLoading' = TabSettled(net[i].req, tabLoading)
    /\ lastEvent' \in {Event("response_ok", Null, Null, userToken),
                       Event("response_error", Null, Null, userToken)}
    /\ UNCHANGED <<store, userToken, isLoading, initPhase, storageQueue, callbackQueue,
                   loginLoading, mounted, lastSent, loggedIn>>
    /\ UNCHANGED screenVars

\* ProfileScreen.handleLogout, 'Cikis Yap' confirmed: logout() up to its await.
HandleLogout ==
    /\ JsIdle
    /\ NavGate = "MainFlow"
    /\ "Profile" \in mounted
    /\ Pending < MaxPending
    /\ storageQueue' = Append(storageQueue, Op("logout", Null, NoRequest))
    /\ loggedIn' = Null
    /\ lastEvent' = Event("logout_called", Null, userToken, userToken)
    /\ UNCHANGED <<store, userToken, isLoading, initPhase, callbackQueue, net,
                   loginLoading, mounted, tabLoading, lastSent>>
    /\ UNCHANGED screenVars

\* ------------------------------------------------------------- screens
\* The rest of the state when a handler of a feature screen runs.
AuthUnchanged ==
    UNCHANGED <<store, userToken, isLoading, initPhase, loginLoading, mounted, tabLoading,
                lastSent, loggedIn>>

\* The user can act on screen f: it is shown, JS is between callbacks and no
\* permission prompt or picker covers the screen.
UserOn(f) ==
    /\ focus = f
    /\ JsIdle
    /\ NavGate = (IF f \in {"Login", "Register"} THEN "AuthFlow" ELSE "MainFlow")
    /\ photo.phase = "idle"

\* A callback of screen f runs.
CallbackOf(f) ==
    /\ focus = f
    /\ JsIdle

\* The interceptor's getItem was rejected for a request to path.
RejectedRequest(path) ==
    /\ callbackQueue # <<>>
    /\ Head(callbackQueue).op.kind = "request"
    /\ ~Head(callbackQueue).ok
    /\ Head(callbackQueue).op.req.path = path

\* ---------------------------------------------------- photo (both screens)
\* The permission pickImage and takePhoto ask for before opening the picker
\* for source: both call ImagePicker.requestCameraPermissionsAsync().
PermissionAsked(source) == "camera"

\* status === 'granted'
PermissionGranted(status) == status = "granted"

\* 'Kamerayi Ac' / 'Galeriden Sec': takePhoto / pickImage up to its first await.
PhotoStart(source) ==
    /\ \/ UserOn("Home")
       \/ UserOn("Detective") /\ det.modalVisible
    /\ photo' = PhotoCall(source, "asking")
    /\ lastEvent' = Other
    /\ AuthUnchanged
    /\ alert' = NoAlert
    /\ UNCHANGED <<storageQueue, callbackQueue, net, focus, home, det, reg, perms,
                   task, rendered>>

\* The permission request settles: a notice and return, or the picker opens.
PhotoPermission ==
    /\ focus \in {"Home", "Detective"}
    /\ JsIdle
    /\ photo.phase = "asking"
    /\ IF PermissionGranted(perms[PermissionAsked(photo.source)])
       THEN /\ photo' = PhotoCall(photo.source, "picking")
            /\ alert' = alert
            /\ lastEvent' = Event("picker_launched", Null, Null, userToken)
       ELSE /\ photo' = NoPhotoCall
            /\ alert' = PermissionAlert
            /\ lastEvent' = Event("permission_denied", Null, Null, userToken)
    /\ AuthUnchanged
    /\ UNCHANGED <<storageQueue, callbackQueue, net, focus, home, det, reg, perms,
                   task, rendered>>

\* The picker returns r: if (!result.canceled && result.assets[0]) the photo
\* is put into the draft; dflt is the screen's `?? null` / `?? ''`.
WithPhoto(draft, r, dflt) ==
    IF r.canceled THEN draft
    ELSE [draft EXCEPT !.imageUri = r.uri, !.imageBase64 = Coalesce(r.base64, dflt)]

PhotoResult(r) ==
    /\ focus \in {"Home", "Detective"}
    /\ JsIdle
    /\ photo.phase = "picking"
    /\ photo' = NoPhotoCall
    /\ IF focus = "Home"
       THEN home' = WithPhoto(home, r, Null) /\ det' = det
       ELSE det' = WithPhoto(det, r, "") /\ home' = home
    /\ lastEvent' = Other
    /\ AuthUnchanged
    /\ UNCHANGED <<storageQueue, callbackQueue, net, focus, reg, perms, alert,
                   task, rendered>>

\* ------------------------------------------------------------ HomeScreen
HomeVarsOnly ==
    /\ AuthUnchanged
    /\ UNCHANGED <<focus, det, reg, photo, perms, task, rendered>>

\* onChangeText={setBinId}
HomeSetBinId(v) ==
    /\ UserOn("Home")
    /\ home' = [home EXCEPT !.binId = v]
    /\ lastEvent' = Other
    /\ HomeVarsOnly
    /\ alert' = NoAlert
    /\ UNCHANGED <<storageQueue, callbackQueue, net>>

\* onPress={() => setWasteCategory(cat)}
HomeSetWasteCategory(cat) ==
    /\ UserOn("Home")
    /\ home' = [home EXCEPT !.wasteCategory = cat]
    /\ lastEvent' = Other
    /\ HomeVarsOnly
    /\ alert' = NoAlert
    /\ UNCHANGED <<storageQueue, callbackQueue, net>>

\* The remove button under the preview: setImageUri(null); setImageBase64(null).
HomeRemovePhoto ==
    /\ UserOn("Home")
    /\ home.imageUri # Null
    /\ home' = [home EXCEPT !.imageUri = Null, !.imageBase64 = Null]
    /\ lastEvent' = Other
    /\ HomeVarsOnly
    /\ alert' = NoAlert
    /\ UNCHANGED <<storageQueue, callbackQueue, net>>

\* Mutant of HomeBinIdMissing: the test written as !binId.
HomeBinIdMissing_NoTrim(h) == h.binId = EmptyText

\* if (!binId.trim())
HomeBinIdMissing(h) == Trim(h.binId) = EmptyText

\* The body submitReport posts.
HomeBody(h) ==
    Body(Trim(h.binId), h.wasteCategory, "36.8969,30.6553", EmptyText, h.imageBase64)

\* submitReport after the awaited post: setBinId(''), setImageUri(null),
\* setImageBase64(null), then finally setLoading(false).
HomeOnSuccess(h) ==
    [h EXCEPT !.binId = EmptyText, !.imageUri = Null, !.imageBase64 = Null,
              !.loading = FALSE]

\* submitReport: catch (Alert only), then finally setLoading(false).
HomeOnFailure(h) == [h EXCEPT !.loading = FALSE]

\* submitReport, the 'Cop At' button (disabled while loading), up to its await.
HomeSubmitReport ==
    /\ UserOn("Home")
    /\ SubmitEnabled(home.loading)
    /\ IF HomeBinIdMissing(home)
       THEN /\ alert' = Alert("Hata", "Lutfen kutu ID'sini girin.")
            /\ lastEvent' = Event("home_invalid", Null, Null, userToken)
            /\ UNCHANGED <<home, storageQueue>>
       ELSE /\ Pending < MaxPending
            /\ home' = [home EXCEPT !.loading = TRUE]
            /\ storageQueue' = Append(storageQueue,
                 Op("request", Null,
                    ApiRequest("POST", "reports/create/", NoHeader, HomeBody(home))))
            /\ alert' = NoAlert
            /\ lastEvent' = Event("home_submit", Null, Null, userToken)
    /\ HomeVarsOnly
    /\ UNCHANGED <<callbackQueue, net>>

\* POST reports/create/ answered 2xx.
HomeSubmitOk(i) ==
    /\ CallbackOf("Home")
    /\ i \in 1..Len(net)
    /\ net[i].req.path = "reports/create/"
    /\ net' = RemoveAt(net, i)
    /\ alert' = Alert("Basarili", "Atik bildirimi gonderildi!")
    /\ home' = HomeOnSuccess(home)
    /\ lastEvent' = Event("home_ok", Null, Null, userToken)
    /\ HomeVarsOnly
    /\ UNCHANGED <<storageQueue, callbackQueue>>

\* POST reports/create/ answered non-2xx, or the transport failed.
HomeSubmitError(i) ==
    /\ CallbackOf("Home")
    /\ i \in 1..Len(net)
    /\ net[i].req.path = "reports/create/"
    /\ net' = RemoveAt(net, i)
    /\ alert' = ErrorAlert
    /\ home' = HomeOnFailure(home)
    /\ lastEvent' = Event("home_failed", Null, Null, userToken)
    /\ HomeVarsOnly
    /\ UNCHANGED <<storageQueue, callbackQueue>>

\* The interceptor rejected the post before it was sent.
HomeSubmitRejected ==
    /\ CallbackOf("Home")
    /\ RejectedRequest("reports/create/")
    /\ callbackQueue' = Tail(callbackQueue)
    /\ alert' = ErrorAlert
    /\ home' = HomeOnFailure(home)
    /\ lastEvent' = Event("home_failed", Null, Null, userToken)
    /\ HomeVarsOnly
    /\ UNCHANGED <<storageQueue, net>>

\* ------------------------------------------------------- DetectiveScreen
DetectiveVarsOnly ==
    /\ AuthUnchanged
    /\ UNCHANGED <<focus, home, reg, photo, perms, task, rendered>>

\* const fetchReports: apiClient.get('detective/reports/') up to its await.
FetchReports ==
    storageQueue' = Append(storageQueue,
        Op("request", Null, ApiRequest("GET", "detective/reports/", NoHeader, NoBody)))

\* The tab is opened for the first time: useEffect calls fetchReports() and
\* asks for the foreground location permission.
DetectiveMount ==
    /\ UserOn("Detective")
    /\ ~det.mounted
    /\ Pending < MaxPending
    /\ det' = [det EXCEPT !.mounted = TRUE, !.locating = "asking"]
    /\ FetchReports
    /\ lastEvent' = Event("fetch_issued", Null, Null, userToken)
    /\ DetectiveVarsOnly
    /\ alert' = NoAlert
    /\ UNCHANGED <<callbackQueue, net>>

\* useEffect: if (status !== 'granted') return; else getCurrentPositionAsync.
DetectiveLocationPermission ==
    /\ CallbackOf("Detective")
    /\ det.locating = "asking"
    /\ det' = [det EXCEPT !.locating =
                 IF PermissionGranted(perms.location) THEN "positioning" ELSE "idle"]
    /\ lastEvent' = IF PermissionGranted(perms.location) THEN Other
                    ELSE Event("location_denied", Null, Null, Null)
    /\ DetectiveVarsOnly
    /\ UNCHANGED <<storageQueue, callbackQueue, net, alert>>

\* getCurrentPositionAsync settles: setUserLocation, or the rejection ends
\* the async function (nothing catches it).
DetectivePosition(ok) ==
    /\ CallbackOf("Detective")
    /\ det.locating = "positioning"
    /\ det' = [det EXCEPT !.locating = "idle",
                          !.userLocation = IF ok THEN "P0" ELSE @]
    /\ lastEvent' = IF ok THEN Other ELSE Event("location_unhandled", Null, Null, Null)
    /\ DetectiveVarsOnly
    /\ UNCHANGED <<storageQueue, callbackQueue, net, alert>>

\* The locate-me button: goToUserLocation up to its await. It asks for no
\* permission and has no try/catch.
GoToUserLocation ==
    /\ UserOn("Detective")
    /\ det.mounted
    /\ ~det.modalVisible
    /\ det.locating = "idle"
    /\ det' = [det EXCEPT !.locating = "locating"]
    /\ lastEvent' = Other
    /\ DetectiveVarsOnly
    /\ alert' = NoAlert
    /\ UNCHANGED <<storageQueue, callbackQueue, net>>

\* getCurrentPositionAsync of goToUserLocation settles: animateToRegion, or
\* the rejection leaves the async function (without the permission the call
\* always rejects).
GoToUserLocationSettled(ok) ==
    /\ CallbackOf("Detective")
    /\ det.locating = "locating"
    /\ ok => PermissionGranted(perms.location)
    /\ det' = [det EXCEPT !.locating = "idle"]
    /\ lastEvent' = IF ok THEN Event("location_shown", Null, Null, Null)
                    ELSE Event("location_unhandled", Null, Null, Null)
    /\ DetectiveVarsOnly
    /\ UNCHANGED <<storageQueue, callbackQueue, net, alert>>

\* handleMapPress: the map is tapped (the modal does not cover it).
DetectiveMapPress(c) ==
    /\ UserOn("Detective")
    /\ det.mounted
    /\ ~det.modalVisible
    /\ det' = [det EXCEPT !.selectedLocation = c]
    /\ lastEvent' = Other
    /\ DetectiveVarsOnly
    /\ alert' = NoAlert
    /\ UNCHANGED <<storageQueue, callbackQueue, net>>

\* 'Bu Konumu Bildir', shown while a location is selected: setModalVisible(true).
DetectiveOpenModal ==
    /\ UserOn("Detective")
    /\ det.selectedLocation # Null
    /\ ~det.modalVisible
    /\ det' = [det EXCEPT !.modalVisible = TRUE]
    /\ lastEvent' = Other
    /\ DetectiveVarsOnly
    /\ alert' = NoAlert
    /\ UNCHANGED <<storageQueue, callbackQueue, net>>

\* onChangeText={setDescription}
DetectiveSetDescription(v) ==
    /\ UserOn("Detective")
    /\ det.modalVisible
    /\ det' = [det EXCEPT !.description = v]
    /\ lastEvent' = Other
    /\ DetectiveVarsOnly
    /\ alert' = NoAlert
    /\ UNCHANGED <<storageQueue, callbackQueue, net>>

\* The remove button under the preview: setImageUri(''); setImageBase64('').
DetectiveRemovePhoto ==
    /\ UserOn("Detective")
    /\ det.modalVisible
    /\ det.imageUri # ""
    /\ det' = [det EXCEPT !.imageUri = "", !.imageBase64 = ""]
    /\ lastEvent' = Other
    /\ DetectiveVarsOnly
    /\ alert' = NoAlert
    /\ UNCHANGED <<storageQueue, callbackQueue, net>>

\* const closeModal
CloseModal(d) ==
    [d EXCEPT !.modalVisible = FALSE, !.description = EmptyText,
              !.imageUri = "", !.imageBase64 = ""]

\* 'Iptal' or the back button: closeModal.
DetectiveCloseModal ==
    /\ UserOn("Detective")
    /\ det.modalVisible
    /\ det' = CloseModal(det)
    /\ lastEvent' = Other
    /\ DetectiveVarsOnly
    /\ alert' = NoAlert
    /\ UNCHANGED <<storageQueue, callbackQueue, net>>

\* What submitReport checks before setLoading(true): if (!selectedLocation) return.
DetectiveDraftMissing(d) == d.selectedLocation = Null

\* The body submitReport posts.
DetectiveBody(d) ==
    Body(EmptyText, "", d.selectedLocation, d.description, d.imageBase64)

\* Mutant of DetectiveOnSuccess: the selected location is kept.
DetectiveOnSuccess_KeepLocation(d) == [CloseModal(d) EXCEPT !.loading = FALSE]

\* submitReport after the awaited post: closeModal(), setSelectedLocation(null),
\* then finally setLoading(false).
DetectiveOnSuccess(d) ==
    [CloseModal(d) EXCEPT !.selectedLocation = Null, !.loading = FALSE]

\* Mutant of DetectiveOnFailure: the modal is closed on failure as well.
DetectiveOnFailure_Close(d) == [CloseModal(d) EXCEPT !.loading = FALSE]

\* submitReport: catch (Alert only), then finally setLoading(false).
DetectiveOnFailure(d) == [d EXCEPT !.loading = FALSE]

\* submitReport, the 'Gonder' button of the modal (disabled while loading),
\* up to its await.
DetectiveSubmitReport ==
    /\ UserOn("Detective")
    /\ det.modalVisible
    /\ SubmitEnabled(det.loading)
    /\ IF DetectiveDraftMissing(det)
       THEN /\ lastEvent' = Event("detective_invalid", Null, Null, userToken)
            /\ UNCHANGED <<det, storageQueue>>
       ELSE /\ Pending < MaxPending
            /\ det' = [det EXCEPT !.loading = TRUE]
            /\ storageQueue' = Append(storageQueue,
                 Op("request", Null,
                    ApiRequest("POST", "detective/reports/", NoHeader, DetectiveBody(det))))
            /\ lastEvent' = Event("detective_submit", Null, Null, userToken)
    /\ DetectiveVarsOnly
    /\ alert' = NoAlert
    /\ UNCHANGED <<callbackQueue, net>>

\* POST detective/reports/ answered 2xx: the draft is cleared and
\* fetchReports() is called.
DetectiveSubmitOk(i) ==
    /\ CallbackOf("Detective")
    /\ i \in 1..Len(net)
    /\ net[i].req.method = "POST"
    /\ net[i].req.path = "detective/reports/"
    /\ Pending < MaxPending
    /\ net' = RemoveAt(net, i)
    /\ alert' = Alert("Basarili", "Cevre sorunu bildirildi, tesekkurler!")
    /\ det' = DetectiveOnSuccess(det)
    /\ FetchReports
    /\ lastEvent' = Event("detective_ok", Null, Null, userToken)
    /\ DetectiveVarsOnly
    /\ UNCHANGED callbackQueue

\* POST detective/reports/ answered non-2xx, or the transport failed.
DetectiveSubmitError(i) ==
    /\ CallbackOf("Detective")
    /\ i \in 1..Len(net)
    /\ net[i].req.method = "POST"
    /\ net[i].req.path = "detective/reports/"
    /\ net' = RemoveAt(net, i)
    /\ alert' = ErrorAlert
    /\ det' = DetectiveOnFailure(det)
    /\ lastEvent' = Event("detective_failed", Null, Null, userToken)
    /\ DetectiveVarsOnly
    /\ UNCHANGED <<storageQueue, callbackQueue>>

\* The interceptor rejected a request of the screen before it was sent: the
\* post fails as above; fetchReports logs the error and keeps the list.
DetectiveRejected ==
    /\ CallbackOf("Detective")
    /\ RejectedRequest("detective/reports/")
    /\ callbackQueue' = Tail(callbackQueue)
    /\ IF Head(callbackQueue).op.req.method = "POST"
       THEN /\ alert' = ErrorAlert
            /\ det' = DetectiveOnFailure(det)
            /\ lastEvent' = Event("detective_failed", Null, Null, userToken)
       ELSE /\ UNCHANGED <<alert, det>>
            /\ lastEvent' = Event("fetch_failed", Null, Null, userToken)
    /\ DetectiveVarsOnly
    /\ UNCHANGED <<storageQueue, net>>

\* The fetchReports calls on the network at positions 1..i: the ones issued
\* no later than the i-th request (requests are sent in the order issued).
FetchRank(i) ==
    Cardinality({k \in 1..i : /\ net[k].req.method = "GET"
                              /\ net[k].req.path = "detective/reports/"})

\* The response applied is that of a fetch issued before the one whose
\* response is displayed.
Stale(d, rank) == rank <= d.overtaken

\* setReports(response.data.results ?? response.data) for the fetch that is
\* the rank-th oldest on the network.  overtaken counts the fetches still
\* out that were issued before the one whose response is displayed.
SetReports(d, rank, list) ==
    [d EXCEPT !.reports = list, !.overtaken = rank - 1]

\* GET detective/reports/ answered 2xx with list.
DetectiveFetchOk(i, list) ==
    /\ CallbackOf("Detective")
    /\ i \in 1..Len(net)
    /\ net[i].req.method = "GET"
    /\ net[i].req.path = "detective/reports/"
    /\ net' = RemoveAt(net, i)
    /\ det' = SetReports(det, FetchRank(i), list)
    /\ lastEvent' = Event(IF Stale(det, FetchRank(i)) THEN "fetch_stale" ELSE "fetch_ok",
                          Null, Null, userToken)
    /\ DetectiveVarsOnly
    /\ UNCHANGED <<storageQueue, callbackQueue, alert>>

\* GET detective/reports/ failed: console.error, the list is kept.
DetectiveFetchError(i) ==
    /\ CallbackOf("Detective")
    /\ i \in 1..Len(net)
    /\ net[i].req.method = "GET"
    /\ net[i].req.path = "detective/reports/"
    /\ net' = RemoveAt(net, i)
    /\ det' = [det EXCEPT !.overtaken = IF FetchRank(i) <= @ THEN @ - 1 ELSE @]
    /\ lastEvent' = Event("fetch_failed", Null, Null, userToken)
    /\ DetectiveVarsOnly
    /\ UNCHANGED <<storageQueue, callbackQueue, alert>>

\* -------------------------------------------------------- RegisterScreen
RegisterVarsOnly ==
    /\ AuthUnchanged
    /\ UNCHANGED <<focus, home, det, photo, perms, task, rendered>>

RegisterFields == {"firstName", "lastName", "email", "password"}

\* onChangeText of one of the four inputs.
RegisterSetField(f, v) ==
    /\ UserOn("Register")
    /\ reg' = [reg EXCEPT ![f] = v]
    /\ lastEvent' = Other
    /\ RegisterVarsOnly
    /\ alert' = NoAlert
    /\ UNCHANGED <<storageQueue, callbackQueue, net>>

\* if (!firstName.trim() || !lastName.trim() || !email.trim() || !password)
RegisterFieldMissing(r) ==
    \/ Trim(r.firstName) = EmptyText
    \/ Trim(r.lastName) = EmptyText
    \/ Trim(r.email) = EmptyText
    \/ r.password = EmptyText

\* handleRegister, the 'Kayit Ol' button (disabled while loading), up to its await.
HandleRegister ==
    /\ UserOn("Register")
    /\ SubmitEnabled(reg.loading)
    /\ IF RegisterFieldMissing(reg)
       THEN /\ alert' = Alert("Hata", "Tum alanlari doldurun.")
            /\ lastEvent' = Event("register_invalid", Null, Null, userToken)
            /\ UNCHANGED <<reg, storageQueue>>
       ELSE /\ Pending < MaxPending
            /\ reg' = [reg EXCEPT !.loading = TRUE]
            /\ IssueRequest("auth/register/", NoHeader)
            /\ alert' = NoAlert
            /\ lastEvent' = Event("register_submit", Null, Null, userToken)
    /\ RegisterVarsOnly
    /\ UNCHANGED <<callbackQueue, net>>

\* POST auth/register/ answered: the success Alert, or catch; then finally.
RegisterResponse(i, ok) ==
    /\ CallbackOf("Register")
    /\ i \in 1..Len(net)
    /\ net[i].req.path = "auth/register/"
    /\ net' = RemoveAt(net, i)
    /\ alert' = IF ok THEN Alert("Kayit Basarili", "Hesabin olusturuldu!") ELSE ErrorAlert
    /\ reg' = [reg EXCEPT !.loading = FALSE]
    /\ lastEvent' = Event(IF ok THEN "response_ok" ELSE "response_error",
                          Null, Null, userToken)
    /\ RegisterVarsOnly
    /\ UNCHANGED <<storageQueue, callbackQueue>>

\* The interceptor rejected the post before it was sent.
RegisterRejected ==
    /\ CallbackOf("Register")
    /\ RejectedRequest("auth/register/")
    /\ callbackQueue' = Tail(callbackQueue)
    /\ alert' = ErrorAlert
    /\ reg' = [reg EXCEPT !.loading = FALSE]
    /\ lastEvent' = Event("request_rejected", Null, Null, userToken)
    /\ RegisterVarsOnly
    /\ UNCHANGED <<storageQueue, net>>

\* ------------------------------------------------------------ process
\* The process ends and the app is launched again: only AsyncStorage survives.
Restart ==
    /\ userToken' = Null
    /\ isLoading' = InitialLoading
    /\ initPhase' = "reading"
    /\ storageQueue' = <<[kind |-> "init", tok |-> Null, req |-> NoRequest, pre |-> Null]>>
    /\ callbackQueue' = <<>>
    /\ net' = <<>>
    /\ loginLoading' = FALSE
    /\ mounted' = {}
    /\ tabLoading' = {}
    /\ lastSent' = NoSent
    /\ lastEvent' = Event("start", Null, Null, Null)
    /\ UNCHANGED <<store, loggedIn>>
    /\ UNCHANGED screenVars

Next ==
    \/ StorageExecOk
    \/ StorageExecFail
    \/ InitThen
    \/ InitRejected
    \/ InitFinally
    \/ LoginResume
    \/ LogoutResume
    \/ InterceptorResume
    \/ InterceptorReject
    \/ \E email, password \in Texts : HandleLogin(email, password)
    \/ \E i \in 1..MaxNet, t \in Tokens : LoginResponseOk(i, t)
    \/ \E i \in 1..MaxNet : LoginResponseError(i)
    \/ \E s \in TabScreens : MountScreen(s)
    \/ \E i \in 1..MaxNet : TabResponse(i)
    \/ HandleLogout
    \/ Restart

Spec == Init /\ [][Next]_vars

\* The same program over a storage medium that never fails a call.
NextReliable ==
    \/ StorageExecOk
    \/ InitThen
    \/ InitFinally
    \/ LoginResume
    \/ LogoutResume
    \/ InterceptorResume
    \/ \E email, password \in Texts : HandleLogin(email, password)
    \/ \E i \in 1..MaxNet, t \in Tokens : LoginResponseOk(i, t)
    \/ \E i \in 1..MaxNet : LoginResponseError(i)
    \/ \E s \in TabScreens : MountScreen(s)
    \/ \E i \in 1..MaxNet : TabResponse(i)
    \/ HandleLogout
    \/ Restart

SpecReliable == Init /\ [][NextReliable]_vars

\* One run of the process, from its start: Next without Restart.
NextRun ==
    \/ StorageExecOk
    \/ StorageExecFail
    \/ InitThen
    \/ InitRejected
    \/ InitFinally
    \/ LoginResume
    \/ LogoutResume
    \/ InterceptorResume
    \/ InterceptorReject
    \/ \E email, password \in Texts : HandleLogin(email, password)
    \/ \E i \in 1..MaxNet, t \in Tokens : LoginResponseOk(i, t)
    \/ \E i \in 1..MaxNet : LoginResponseError(i)
    \/ \E s \in TabScreens : MountScreen(s)
    \/ \E i \in 1..MaxNet : TabResponse(i)
    \/ HandleLogout

\* The native module executes every call it was handed, and the JS thread
\* runs every promise callback that is ready: the startup chain is not
\* starved.  Nothing is assumed about the user or the network.
SpecRun ==
    /\ Init
    /\ [][NextRun]_vars
    /\ WF_vars(StorageExecOk \/ StorageExecFail)
    /\ WF_vars(InitThen)
    /\ WF_vars(InitRejected)
    /\ WF_vars(InitFinally)

\* ------------------------------------------------- one screen at a time
\* The screens keep their state to themselves and meet only in the session
\* and in apiClient, so each is exercised on its own: a run starts with the
\* session settled and one screen in focus, and only that screen's handlers
\* and the callbacks of its requests run.
Foci == {"Login", "Register", "Profile", "Leaderboard", "Bounty", "Home", "Detective"}
\* What the OS answers a permission request with: everything granted, or
\* one of the three permissions denied.
AllGranted == [camera |-> "granted", library |-> "granted", location |-> "granted"]
PermissionCases ==
    {AllGranted} \cup {[AllGranted EXCEPT ![p] = "denied"] :
                          p \in {"camera", "library", "location"}}

\* The token of the session in which Home and Detective are exercised (their
\* handlers never read it; the interceptor does).
SignedIn == CHOOSE t \in Tokens : TRUE

ScreensInit ==
    /\ focus \in Foci
    /\ userToken \in (CASE focus \in {"Login", "Register"} -> {Null}
                        [] focus \in {"Home", "Detective"} -> {SignedIn}
                        [] OTHER -> Tokens)
    /\ store = userToken
    /\ loggedIn = userToken
    /\ isLoading = FALSE
    /\ initPhase = "done"
    /\ storageQueue = <<>>
    /\ callbackQueue = <<>>
    /\ net = <<>>
    /\ loginLoading = FALSE
    /\ mounted = {}
    /\ tabLoading = {}
    /\ lastSent = NoSent
    /\ lastEvent = Event("shown", Null, Null, userToken)
    /\ perms \in (IF focus \in {"Home", "Detective"} THEN PermissionCases
                  ELSE {AllGranted})
    /\ ScreensFresh

NextScreens ==
    \/ StorageExecOk
    \/ StorageExecFail
    \/ InterceptorResume
    \/ InterceptorReject
    \/ focus = "Login" /\ \E email, password \in Texts : HandleLogin(email, password)
    \/ \E i \in 1..MaxNet, t \in Tokens : LoginResponseOk(i, t)
    \/ \E i \in 1..MaxNet : LoginResponseError(i)
    \/ LoginResume
    \/ \E s \in TabScreens : focus = s /\ MountScreen(s)
    \/ \E i \in 1..MaxNet : TabResponse(i)
    \/ HandleLogout
    \/ LogoutResume
    \/ \E f \in RegisterFields, v \in Texts : RegisterSetField(f, v)
    \/ HandleRegister
    \/ \E i \in 1..MaxNet, ok \in BOOLEAN : RegisterResponse(i, ok)
    \/ RegisterRejected
    \/ \E source \in {"camera", "library"} : PhotoStart(source)
    \/ PhotoPermission
    \/ \E r \in PickerResults : PhotoResult(r)
    \/ \E v \in Texts : HomeSetBinId(v)
    \/ \E cat \in CategoryInputs : HomeSetWasteCategory(cat)
    \/ HomeRemovePhoto
    \/ HomeSubmitReport
    \/ \E i \in 1..MaxNet : HomeSubmitOk(i)
    \/ \E i \in 1..MaxNet : HomeSubmitError(i)
    \/ HomeSubmitRejected
    \/ DetectiveMount
    \/ DetectiveLocationPermission
    \/ \E ok \in BOOLEAN : DetectivePosition(ok)
    \/ \E c \in Coordinates : DetectiveMapPress(c)
    \/ DetectiveOpenModal
    \/ \E v \in DescriptionInputs : DetectiveSetDescription(v)
    \/ DetectiveRemovePhoto
    \/ DetectiveCloseModal
    \/ DetectiveSubmitReport
    \/ \E i \in 1..MaxNet : DetectiveSubmitOk(i)
    \/ \E i \in 1..MaxNet : DetectiveSubmitError(i)
    \/ DetectiveRejected
    \/ \E i \in 1..MaxNet, list \in ReportLists : DetectiveFetchOk(i, list)
    \/ \E i \in 1..MaxNet : DetectiveFetchError(i)

SpecScreens == ScreensInit /\ [][NextScreens]_vars

\* ------------------------------------------- Detective report list
\* Requests the network holds at once while the report list is exercised:
\* one more than elsewhere, so that a fetch can be out together with the
\* submission whose success issues the next fetch.
FetchNet == MaxNet + 1

ReportsInit ==
    /\ ScreensInit
    /\ focus = "Detective"
    /\ perms \in {AllGranted, [AllGranted EXCEPT !.location = "denied"]}

\* The Detective screen without the photo and the description: the mount
\* effect, the map and its locate-me button, the modal, the submission and
\* the list fetches.
NextReports ==
    \/ StorageExecOk
    \/ StorageExecFail
    \/ InterceptorResumeUpTo(FetchNet)
    \/ DetectiveMount
    \/ DetectiveLocationPermission
    \/ \E ok \in BOOLEAN : DetectivePosition(ok)
    \/ \E c \in Coordinates : DetectiveMapPress(c)
    \/ DetectiveOpenModal
    \/ DetectiveCloseModal
    \/ DetectiveSubmitReport
    \/ \E i \in 1..FetchNet : DetectiveSubmitOk(i)
    \/ \E i \in 1..FetchNet : DetectiveSubmitError(i)
    \/ DetectiveRejected
    \/ \E i \in 1..FetchNet, list \in ReportLists : DetectiveFetchOk(i, list)
    \/ \E i \in 1..FetchNet : DetectiveFetchError(i)
    \/ GoToUserLocation
    \/ \E ok \in BOOLEAN : GoToUserLocationSettled(ok)

SpecReports == ReportsInit /\ [][NextReports]_vars

\* ---------------------------------------------------------- BountyScreen
\* Largest magnitude of a task's current and target.
MaxCount == 4
TaskInputs == {Task(c, t) : c \in (0 - MaxCount)..MaxCount, t \in (0 - MaxCount)..MaxCount}

\* Mutant of TaskDone: the comparison written as >.
TaskDone_Strict(item) == item.current > item.target

\* const done = item.current >= item.target
TaskDone(item) == item.current >= item.target

\* Math.min(a, b)
MathMin(a, b) == IF a < b THEN a ELSE b

\* renderTask: the done badge and the `${Math.min(current, target)}/${target}
\* Tamamlandi` label of the card.
RenderTask(item) ==
    Card(TaskDone(item), MathMin(item.current, item.target), item.target)

BountyVarsOnly ==
    /\ UNCHANGED authVars
    /\ UNCHANGED <<focus, home, det, reg, photo, perms, alert>>

\* setTasks(response.data): the list has a new item to draw.
BountySetTasks(item) ==
    /\ focus = "Bounty"
    /\ rendered.drawn
    /\ task' = item
    /\ rendered' = NotRendered
    /\ BountyVarsOnly

\* FlatList calls renderTask for the item.
BountyRender ==
    /\ focus = "Bounty"
    /\ ~rendered.drawn
    /\ rendered' = RenderTask(task)
    /\ task' = task
    /\ BountyVarsOnly

\* The Bounty tab with a task list just received.
BountyInit ==
    /\ focus = "Bounty"
    /\ userToken \in Tokens
    /\ store = userToken
    /\ loggedIn = userToken
    /\ isLoading = FALSE
    /\ initPhase = "done"
    /\ storageQueue = <<>>
    /\ callbackQueue = <<>>
    /\ net = <<>>
    /\ loginLoading = FALSE
    /\ mounted = {"Bounty"}
    /\ tabLoading = {}
    /\ lastSent = NoSent
    /\ lastEvent = Event("shown", Null, Null, userToken)
    /\ perms = AllGranted
    /\ home = HomeFresh
    /\ det = DetectiveFresh
    /\ reg = RegisterFresh
    /\ photo = NoPhotoCall
    /\ alert = NoAlert
    /\ task \in TaskInputs
    /\ rendered = NotRendered

NextBounty ==
    \/ \E item \in TaskInputs : BountySetTasks(item)
    \/ BountyRender

SpecBounty == BountyInit /\ [][NextBounty]_vars

TypeOK ==
    /\ store \in MaybeToken
    /\ userToken \in MaybeToken
    /\ isLoading \in BOOLEAN
    /\ initPhase \in {"reading", "fulfilled", "rejected", "done"}
    /\ Pending <= MaxPending
    /\ Len(net) <= FetchNet
    /\ mounted \subseteq TabScreens
    /\ tabLoading \subseteq mounted
    /\ focus \in Foci \cup {""}
    /\ home.binId \in Texts
    /\ home.wasteCategory \in WASTE_CATEGORIES
    /\ home.loading \in BOOLEAN
    /\ det.selectedLocation \in Coordinates \cup {Null}
    /\ det.description \in Texts
    /\ det.reports \in ReportLists
    /\ det.loading \in BOOLEAN
    /\ det.overtaken \in 0..FetchNet
    /\ reg.loading \in BOOLEAN
    /\ photo.phase \in {"idle", "asking", "picking"}
    /\ perms \in PermissionCases
    /\ task \in TaskInputs \cup {Task(0, 0)}

\* =====================================================================
\* Properties
\* =====================================================================

\* No login, logout or initial read is outstanding.
AuthQuiescent ==
    /\ initPhase = "done"
    /\ \A i \in 1..Len(storageQueue) : storageQueue[i].kind = "request"
    /\ \A i \in 1..Len(callbackQueue) : callbackQueue[i].op.kind = "request"

\* C1: when login(t) has just completed successfully, the persisted store
\* holds t and the Session Context reports authenticated with exactly t.
C1_LoginPersistsAndAuthenticates ==
    lastEvent.type = "login_ok" =>
        /\ store = lastEvent.tok
        /\ SessionState = Session("authenticated", lastEvent.tok)

\* login("tokB") has just completed.
C1_Witness ==
    /\ lastEvent.type = "login_ok"
    /\ lastEvent.tok = "tokB"
    /\ store = "tokB"
    /\ userToken = "tokB"
    /\ ~isLoading

\* C2: when logout() has just completed, the persisted store is empty, the
\* Session Context reports unauthenticated and the Navigation Gate is AuthFlow.
C2_LogoutClearsAndGates ==
    lastEvent.type = "logout_ok" =>
        /\ store = Null
        /\ SessionState = Session("unauthenticated", Null)
        /\ NavGate = "AuthFlow"

\* A logout that began with a token in memory has completed.
C2_Witness ==
    /\ lastEvent.type = "logout_ok"
    /\ lastEvent.was \in Tokens
    /\ store = Null
    /\ userToken = Null

\* C3: a login or logout whose storage step failed makes no partial
\* transition: the step in which the call learns of the failure leaves
\* userToken as it was, and after a failed login userToken is what it was
\* when login was called.
C3_FailedPersistenceChangesNothing ==
    /\ lastEvent.type \in {"login_failed", "logout_failed"} => userToken = lastEvent.was
    /\ lastEvent.type = "login_failed" => userToken = lastEvent.pre

\* A logout failed while a token was in memory, and the token is still there.
C3_Witness ==
    /\ lastEvent.type = "logout_failed"
    /\ lastEvent.pre \in Tokens
    /\ userToken = lastEvent.pre
    /\ store = lastEvent.pre

\* C4: a request issued while the Session Context is authenticated(t) is
\* sent with bearer t, and one issued while it is unauthenticated is sent
\* with no Authorization header.
C4_BearerFollowsSession ==
    lastSent # NoSent =>
        /\ lastSent.req.issuedIn.tag = "authenticated" =>
               lastSent.header = Bearer(lastSent.req.issuedIn.token)
        /\ lastSent.req.issuedIn.tag = "unauthenticated" =>
               lastSent.header = NoHeader

\* C5: a profile fetch issued after login(t) completed and before any
\* logout was started is sent with Authorization: Bearer t.
C5_ProfileFetchCarriesLoginToken ==
    (lastSent.req.path = "auth/me/" /\ lastSent.req.loggedIn \in Tokens) =>
        lastSent.header = <<"Bearer", lastSent.req.loggedIn>>

\* The profile request went out with the token a login of this run stored.
C5_Witness ==
    /\ lastSent.req.path = "auth/me/"
    /\ lastSent.req.loggedIn = "tokB"
    /\ lastSent.header = <<"Bearer", "tokB">>

\* C6: from every reachable state, logout() run twice in a row can end in
\* exactly the states one logout() can end in (store, session, gate); when
\* both succeed the result is that of one successful logout; and a logout
\* that completes when the token in memory is already null changes nothing.
C6_LogoutIdempotent ==
    LET cur == [store |-> store, userToken |-> userToken, isLoading |-> isLoading]
        once == {LogoutRun(cur, ok) : ok \in BOOLEAN}
        twice == {LogoutRun(s1, ok) : s1 \in once, ok \in BOOLEAN}
        one == LogoutRun(cur, TRUE)
        two == LogoutRun(one, TRUE)
    IN  /\ twice = once
        /\ two = one
        /\ Gate(two.isLoading, two.userToken) = Gate(one.isLoading, one.userToken)
        /\ (lastEvent.type = "logout_ok" /\ lastEvent.was = Null) =>
               (userToken = Null /\ store = Null)

\* A second logout, started while the first was in flight, has completed
\* after the first one had already cleared the session.
C6_Witness ==
    /\ lastEvent.type = "logout_ok"
    /\ lastEvent.pre \in Tokens
    /\ lastEvent.was = Null
    /\ store = Null

\* C7: whenever no login, logout or initial read is outstanding, the token
\* in memory equals the persisted token.
C7_MemoryEqualsStoreWhenQuiescent ==
    AuthQuiescent => userToken = store

\* C8: the pair (isLoading, userToken) a subscriber sees is loading (no
\* token), authenticated (a token, not loading) or unauthenticated (no
\* token, not loading); loading together with a token is never seen.
C8_ExactlyThreeStates ==
    \/ isLoading /\ userToken = Null
    \/ ~isLoading /\ userToken \in Tokens
    \/ ~isLoading /\ userToken = Null

\* The initial token read of this run: calls not yet settled on the JS thread.
InitReads ==
    Cardinality({i \in 1..Len(storageQueue) : storageQueue[i].kind = "init"})
    + Cardinality({i \in 1..Len(callbackQueue) : callbackQueue[i].op.kind = "init"})

\* C9: there is one initial read; until its promise chain has finished the
\* Session Context reports loading, never unauthenticated; and once
\* isLoading is false it stays false for the rest of the run.
C9_LoadingUntilInitialReadSettles ==
    /\ [](/\ InitReads = (IF initPhase = "reading" THEN 1 ELSE 0)
          /\ initPhase # "done" => SessionState = Session("loading", Null)
          /\ initPhase = "done" => ~isLoading)
    /\ [][(~isLoading /\ lastEvent'.type # "start") => ~isLoading']_vars

\* The initial read has resolved with a token while loading is still shown.
C9_Witness ==
    /\ initPhase = "reading"
    /\ callbackQueue # <<>>
    /\ Head(callbackQueue).op.kind = "init"
    /\ Head(callbackQueue).ok
    /\ Head(callbackQueue).value \in Tokens
    /\ isLoading

\* C10: when the startup read chain has finished, the Session Context is
\* authenticated(t) exactly when the store holds t, and unauthenticated
\* (gate: AuthFlow) exactly when the store is empty.
C10_StartupSettlesToStore ==
    lastEvent.type \in {"init_ok", "init_failed"} =>
        /\ store \in Tokens <=> SessionState = Session("authenticated", store)
        /\ store = Null <=> SessionState = Session("unauthenticated", Null)
        /\ store = Null => NavGate = "AuthFlow"

\* What a consumer of useAuth() reads once the startup read of an empty
\* store has gone through .then(setUserToken(null)) and .finally.
EmptyStoreOutcome == Session("unauthenticated", Null)

\* C11: a startup read that the storage medium failed is surfaced as an
\* error: what the Session Context then shows is never what it shows after
\* reading an empty store.
C11_FailedReadDistinctFromAbsent ==
    lastEvent.type = "init_failed" => SessionState # EmptyStoreOutcome

\* C12: within one run of the process the Navigation Gate changes only by
\* Loading -> AuthFlow when the startup read settles to unauthenticated,
\* Loading -> MainFlow when it settles to authenticated, AuthFlow -> MainFlow
\* on a successful login and MainFlow -> AuthFlow on a logout; it never
\* goes back to Loading, and in every state the run can go on.
C12_GateTransitions ==
    /\ [][lastEvent'.type # "start" =>
            \/ NavGate' = NavGate
            \/ /\ NavGate = "Loading"
               /\ NavGate' = "AuthFlow"
               /\ lastEvent'.type \in {"init_ok", "init_failed"}
               /\ SessionState'.tag = "unauthenticated"
            \/ /\ NavGate = "Loading"
               /\ NavGate' = "MainFlow"
               /\ lastEvent'.type \in {"init_ok", "init_failed"}
               /\ SessionState'.tag = "authenticated"
            \/ /\ NavGate = "AuthFlow"
               /\ NavGate' = "MainFlow"
               /\ lastEvent'.type = "login_ok"
            \/ /\ NavGate = "MainFlow"
               /\ NavGate' = "AuthFlow"
               /\ lastEvent'.type = "logout_ok"]_vars
    /\ [](ENABLED (Next /\ lastEvent'.type # "start"))

\* The gate has gone from MainFlow back to AuthFlow by a logout, in a run
\* that had reached MainFlow by a login.
C12_Witness ==
    /\ lastEvent.type = "logout_ok"
    /\ lastEvent.was \in Tokens
    /\ NavGate = "AuthFlow"
    /\ lastSent.req.path = "auth/login/"

\* What a step that learns of a failed request records in lastEvent: a
\* non-2xx answer or transport failure, or the interceptor's rejection.
FailureEvents ==
    {"response_error", "request_rejected", "home_failed", "detective_failed",
     "fetch_failed"}

\* C13: a step in which a request fails (non-2xx, 401 included, transport
\* failure, or rejected before it was sent) issues no further request and
\* no logout, sends nothing, and leaves the persisted token and the Session
\* Context as they were.
C13_NoRetryNoAutoLogout ==
    [][lastEvent'.type \in FailureEvents =>
          /\ storageQueue' = storageQueue
          /\ Len(net') <= Len(net)
          /\ \A j \in 1..Len(net') : \E k \in 1..Len(net) : net'[j] = net[k]
          /\ store' = store
          /\ SessionState' = SessionState]_vars

\* The profile request was answered with an error and the user is still
\* logged in, with nothing on its way to storage or to the network.
C13_Witness ==
    /\ focus = "Profile"
    /\ lastEvent.type = "response_error"
    /\ lastSent.req.path = "auth/me/"
    /\ store \in Tokens
    /\ SessionState = Session("authenticated", store)
    /\ Pending = 0
    /\ net = <<>>

\* C14: the persisted token changes only when a setItem of login or a
\* removeItem of logout takes effect, the token in memory only when login or
\* logout completes, and those calls are made only by a successful login
\* response and by the logout button: no other handler of a screen and no
\* response touches either token.
C14_TokenChangedOnlyByLoginLogout ==
    [][/\ store' # store =>
            /\ storageQueue # <<>>
            /\ Head(storageQueue).kind \in {"login", "logout"}
            /\ storageQueue' = Tail(storageQueue)
       /\ userToken' # userToken => lastEvent'.type \in {"login_ok", "logout_ok"}
       /\ (/\ Len(storageQueue') > Len(storageQueue)
           /\ storageQueue'[Len(storageQueue')].kind \in {"login", "logout"})
            => lastEvent'.type \in {"login_called", "logout_called"}]_vars

\* A waste report has been accepted by the server and the token is still in
\* both places.
C14_Witness ==
    /\ focus = "Home"
    /\ lastEvent.type = "home_ok"
    /\ alert.title = "Basarili"
    /\ store \in Tokens
    /\ userToken = store

\* A text with no visible character: '' or blanks only.
Blank(text) == \A k \in 1..Len(text) : text[k] = " "

\* C15: pressing the Home submit button with an empty or blank bin id shows
\* the validation Alert and does nothing else: no request is issued, loading
\* stays false and bin id, category and photo are as they were.
C15_BlankBinIdRejectedLocally ==
    [][(/\ focus = "Home"
        /\ lastEvent'.type \in {"home_invalid", "home_submit"}
        /\ Blank(home.binId)) =>
          /\ lastEvent'.type = "home_invalid"
          /\ alert' = Alert("Hata", "Lutfen kutu ID'sini girin.")
          /\ UNCHANGED <<storageQueue, callbackQueue, net>>
          /\ ~home'.loading
          /\ home' = home]_vars

\* A blank (not empty) bin id has just been rejected, with a photo and a
\* category other than the default in the draft and nothing in flight.
C15_Witness ==
    /\ focus = "Home"
    /\ lastEvent.type = "home_invalid"
    /\ home.binId = <<" ">>
    /\ home.wasteCategory = "GLASS"
    /\ home.imageUri # Null
    /\ ~home.loading
    /\ alert.title = "Hata"
    /\ Pending = 0
    /\ net = <<>>

\* Requests whose interceptor read has been issued and not yet executed.
Issued == {storageQueue[i].req : i \in {j \in 1..Len(storageQueue) :
                                           storageQueue[j].kind = "request"}}

\* C16: the Detective screen validates the required description before any
\* network call: no POST detective/reports/ is ever issued with an empty
\* description.
C16_EmptyDescriptionNotPosted ==
    \A r \in Issued :
        (r.method = "POST" /\ r.path = "detective/reports/") =>
            r.body.description # EmptyText

\* The draft of each submission screen: what the user has entered.
HomeDraft(h) == <<h.binId, h.wasteCategory, h.imageUri, h.imageBase64>>
DetectiveDraft(d) ==
    <<d.selectedLocation, d.description, d.imageUri, d.imageBase64, d.modalVisible>>

\* C17: the step in which a submission fails (error response, transport
\* failure, or rejected before sending) leaves the draft alone: Home bin id,
\* category and photo; Detective location, description, photo and modal.
C17_FailureKeepsDraft ==
    [][/\ lastEvent'.type = "home_failed" => HomeDraft(home') = HomeDraft(home)
       /\ lastEvent'.type = "detective_failed" =>
              DetectiveDraft(det') = DetectiveDraft(det)]_vars

\* A Detective submission has just failed with the modal open and a
\* location, a description and a photo still in the draft.
C17_Witness ==
    /\ focus = "Detective"
    /\ lastEvent.type = "detective_failed"
    /\ alert = ErrorAlert
    /\ det.modalVisible
    /\ det.selectedLocation = "P1"
    /\ det.description = <<"b">>
    /\ det.imageUri # ""
    /\ ~det.loading

\* The step issued a request (its interceptor read is the newest call).
Issues(method, path) ==
    /\ Len(storageQueue') = Len(storageQueue) + 1
    /\ storageQueue' = Append(storageQueue, storageQueue'[Len(storageQueue')])
    /\ storageQueue'[Len(storageQueue')].kind = "request"
    /\ storageQueue'[Len(storageQueue')].req.method = method
    /\ storageQueue'[Len(storageQueue')].req.path = path

\* C18: the step in which a submission succeeds clears the draft (Home: bin
\* id empty, photo absent; Detective: description empty, photo absent, no
\* selected location, modal closed) and, in Detective, issues the one
\* re-fetch of the report list; the list is fetched at no other moment than
\* that step and the mount of the screen.
C18_SuccessClearsDraftAndRefetches ==
    [][/\ lastEvent'.type = "home_ok" =>
              /\ home'.binId = EmptyText
              /\ ~Truthy(home'.imageUri)
              /\ ~Truthy(home'.imageBase64)
       /\ lastEvent'.type = "detective_ok" =>
              /\ det'.description = EmptyText
              /\ ~Truthy(det'.imageUri)
              /\ ~Truthy(det'.imageBase64)
              /\ det'.selectedLocation = Null
              /\ ~det'.modalVisible
              /\ Issues("GET", "detective/reports/")
       /\ (focus = "Detective" /\ storageQueue' # storageQueue
           /\ Len(storageQueue') > Len(storageQueue)
           /\ storageQueue'[Len(storageQueue')].req.method = "GET") =>
              lastEvent'.type \in {"detective_ok", "fetch_issued"}]_vars

\* A Detective submission has just succeeded: the draft is cleared, the
\* list loaded earlier is still shown and its re-fetch is the only call
\* on its way.
C18_Witness ==
    /\ focus = "Detective"
    /\ lastEvent.type = "detective_ok"
    /\ det.reports = <<"r1">>
    /\ det.selectedLocation = Null
    /\ ~det.modalVisible
    /\ ~det.loading
    /\ Len(storageQueue) = 1
    /\ storageQueue[1].req.method = "GET"
    /\ callbackQueue = <<>>
    /\ net = <<>>

\* C19: a drawn task card shows the done badge exactly when current >=
\* target, and the completed count it shows is the smaller of current and
\* target, so it never exceeds target.
C19_TaskCompletion ==
    rendered.drawn =>
        /\ rendered.done <=> task.current >= task.target
        /\ rendered.completed \in {task.current, task.target}
        /\ rendered.completed <= task.current
        /\ rendered.completed <= task.target
        /\ rendered.target = task.target

\* A task that went past its target is drawn as done with the count capped;
\* (Scenario D of the specification is the case current = target.)
C19_Witness ==
    /\ rendered.drawn
    /\ task = Task(4, 3)
    /\ rendered.done
    /\ rendered.completed = 3

\* The permission the picker of a photo call belongs to: the camera for
\* 'Kamerayi Ac', the photo library for 'Galeriden Sec'.
PermissionOf(source) == IF source = "camera" THEN "camera" ELSE "library"

\* C20: when the permission of the chosen picker (camera or gallery) is
\* denied, the step in which the permission request settles shows the
\* notice, opens no picker, leaves the draft photo as it was and leaves no
\* permission request outstanding.
C20_DeniedPermissionAbortsPhoto ==
    [][(/\ photo.phase = "asking"
        /\ photo'.phase # "asking"
        /\ perms[PermissionOf(photo.source)] = "denied") =>
          /\ alert' = PermissionAlert
          /\ photo' = NoPhotoCall
          /\ home' = home
          /\ det' = det]_vars

\* C24: in every run the startup read, fulfilled or rejected, ends the
\* loading state, and when the chain of a rejected read has finished the
\* token in memory is null and the session is reported unauthenticated.
C24_StartupReadEndsLoading ==
    /\ <>(~isLoading)
    /\ [](lastEvent.type = "init_failed" =>
            /\ ~isLoading
            /\ userToken = Null
            /\ SessionState = Session("unauthenticated", Null))

\* The read was rejected while a token is persisted: loading has ended and
\* the session is unauthenticated.
C24_Witness ==
    /\ lastEvent.type = "init_failed"
    /\ store \in Tokens
    /\ ~isLoading
    /\ userToken = Null

\* C27: the interceptor resolves the Authorization header from the value its
\* own getItem read from the store: a token t there gives Bearer t whatever
\* the screen supplied; nothing there leaves the screen's header (none, or
\* the one built from the in-memory userToken) as it is.
C27_InterceptorFixesBearer ==
    [][/\ (storageQueue # <<>> /\ storageQueue' = Tail(storageQueue)
           /\ Head(storageQueue).kind = "request"
           /\ Len(callbackQueue') = Len(callbackQueue) + 1
           /\ callbackQueue'[Len(callbackQueue')].ok) =>
              callbackQueue'[Len(callbackQueue')].value = store
       /\ lastEvent'.type = "sent" =>
              LET c == Head(callbackQueue) IN
              /\ lastSent'.req.path = c.op.req.path
              /\ net'[Len(net')].header = lastSent'.header
              /\ c.value \in Tokens => lastSent'.header = <<"Bearer", c.value>>
              /\ c.value = Null => lastSent'.header = c.op.req.screenAuth]_vars

\* The leaderboard request was issued while a logout had not yet cleared
\* the session; the interceptor read the store the logout had emptied, and
\* the request went out with the header the screen had built from the
\* in-memory token.
C27_Witness ==
    /\ lastEvent.type = "sent"
    /\ lastEvent.tok = Null
    /\ lastSent.req.path = "auth/leaderboard/"
    /\ lastSent.req.screenAuth = <<"Bearer", "tokA">>
    /\ lastSent.header = <<"Bearer", "tokA">>
    /\ lastSent.req.issuedIn = Session("authenticated", "tokA")
    /\ store = Null


\* C21: on the Detective screen a denied foreground location permission is
\* surfaced as a notice at the step that learns of it, and while the
\* permission is denied no location call of that screen (the locate-me button
\* included) ends in a rejection nothing handles.
C21_LocationDenialRecoverable ==
    [][/\ lastEvent'.type = "location_denied" => alert' # NoAlert
       /\ perms.location = "denied" => lastEvent'.type # "location_unhandled"]_vars

\* C21 (part): the permission was denied at mount and the screen stays
\* usable, but no notice is ever raised by that step.
C21_DenialIsNoticed ==
    [][lastEvent'.type = "location_denied" => alert' # NoAlert]_vars

\* C21 (part): with the permission denied, the locate-me button's position
\* request never ends in an unhandled rejection.
C21_NoUnhandledLocationError ==
    [][perms.location = "denied" => lastEvent'.type # "location_unhandled"]_vars


\* C23: handleLogin pressed with an empty or whitespace-only email or an
\* empty password, and handleRegister pressed with first name, last name or
\* email blank or the password empty, issue no network call and leave the
\* screen's loading flag false.
C23_InvalidAuthFormStaysLocal ==
    [][/\ \A email, password \in Texts :
            (/\ HandleLogin(email, password)
             /\ (Blank(email) \/ password = EmptyText)) =>
                /\ storageQueue' = storageQueue
                /\ net' = net
                /\ ~loginLoading'
                /\ alert' # NoAlert
       /\ (/\ focus = "Register"
           /\ lastEvent'.type \in {"register_invalid", "register_submit"}
           /\ \/ Blank(reg.firstName)
              \/ Blank(reg.lastName)
              \/ Blank(reg.email)
              \/ reg.password = EmptyText) =>
                /\ storageQueue' = storageQueue
                /\ net' = net
                /\ ~reg'.loading
                /\ alert' # NoAlert]_vars

\* The register button was pressed with only the first name blank (a space):
\* the validation Alert is up, nothing was sent and loading is false.
C23_Witness ==
    /\ focus = "Register"
    /\ lastEvent.type = "register_invalid"
    /\ reg.firstName = <<" ">>
    /\ reg.lastName = <<"b">>
    /\ reg.email = <<"b">>
    /\ reg.password = <<"b">>
    /\ ~reg.loading
    /\ alert = Alert("Hata", "Tum alanlari doldurun.")
    /\ storageQueue = <<>>
    /\ net = <<>>

\* The login button was pressed with a missing field: the validation Alert
\* is up, nothing was sent and loading is false.
C23_LoginInvalidReached ==
    /\ focus = "Login"
    /\ lastEvent.type = "login_invalid"
    /\ ~loginLoading
    /\ alert = Alert("Hata", "E-posta ve sifre alanlarini doldurun.")
    /\ storageQueue = <<>>
    /\ net = <<>>


\* The loading flag, after the step, of the screen whose handler issued req
\* (the submit control is rendered with disabled={loading}).
LoadingAfter(req) ==
    CASE req.path = "auth/login/" -> loginLoading'
      [] req.path = "auth/register/" -> reg'.loading
      [] req.path = "reports/create/" -> home'.loading
      [] req.path = "detective/reports/" -> det'.loading
      [] OTHER -> TabOf(req.path) \in tabLoading'

\* Requests whose failure the claim is about: the login, register, waste
\* report and detective submissions and the three tab fetches, issued by a
\* component that is still mounted.
Watched(req) ==
    /\ req.alive
    /\ \/ req.method = "POST"
       \/ req.path \in TabPaths

\* C22: in the step in which a request of login, register, the waste-report
\* submit, the detective submit or a task / leaderboard / profile fetch
\* settles with an error (a failed answer, or the interceptor's rejection),
\* the issuing screen's loading flag is false, so its submit control is
\* enabled again.
C22_FailureReturnsControl ==
    [][/\ \A i \in 1..Len(net) :
            (/\ Len(net') < Len(net)
             /\ net' = RemoveAt(net, i)
             /\ lastEvent'.type \in FailureEvents
             /\ Watched(net[i].req)) => ~LoadingAfter(net[i].req)
       /\ (/\ callbackQueue # <<>>
           /\ Head(callbackQueue).op.kind = "request"
           /\ ~Head(callbackQueue).ok
           /\ Len(callbackQueue') < Len(callbackQueue)
           /\ Watched(Head(callbackQueue).op.req)) =>
                ~LoadingAfter(Head(callbackQueue).op.req)]_vars

\* The leaderboard fetch was answered with an error and the screen, still
\* mounted, is no longer loading.
C22_Witness ==
    /\ focus = "Leaderboard"
    /\ lastEvent.type = "response_error"
    /\ "Leaderboard" \in mounted
    /\ "Leaderboard" \notin tabLoading
    /\ lastSent.req.path = "auth/leaderboard/"
    /\ net = <<>>
    /\ storageQueue = <<>>
    /\ callbackQueue = <<>>

\* The detective submit was rejected by the interceptor and the modal's
\* submit button is enabled again.
C22_DetectiveRejectedReached ==
    /\ focus = "Detective"
    /\ lastEvent.type = "detective_failed"
    /\ lastSent.req.method # "POST"
    /\ det.modalVisible
    /\ ~det.loading


\* POST requests to path that were issued and have not settled: awaiting the
\* interceptor's read, awaiting its continuation, or on the network.
Submissions(path) ==
    Cardinality({k \in 1..Len(storageQueue) :
                    /\ storageQueue[k].kind = "request"
                    /\ storageQueue[k].req.method = "POST"
                    /\ storageQueue[k].req.path = path})
    + Cardinality({k \in 1..Len(callbackQueue) :
                    /\ callbackQueue[k].op.kind = "request"
                    /\ callbackQueue[k].op.req.method = "POST"
                    /\ callbackQueue[k].op.req.path = path})
    + Cardinality({k \in 1..Len(net) :
                    /\ net[k].req.method = "POST"
                    /\ net[k].req.path = path})

\* login(response.data.access) calls of handleLogin that have not returned.
LoginCalls ==
    Cardinality({k \in 1..Len(storageQueue) : storageQueue[k].kind = "login"})
    + Cardinality({k \in 1..Len(callbackQueue) : callbackQueue[k].op.kind = "login"})

\* C25: each of login, register, the waste-report submit and the detective
\* submit has at most one submission in flight, and the screen's loading flag
\* is true exactly while it is (for login: until `await login(...)` has
\* returned too); so no second submission is issued while loading.
C25_OneSubmissionInFlight ==
    /\ Submissions("auth/login/") + LoginCalls <= 1
    /\ loginLoading <=> (Submissions("auth/login/") + LoginCalls = 1)
    /\ Submissions("auth/register/") <= 1
    /\ reg.loading <=> (Submissions("auth/register/") = 1)
    /\ Submissions("reports/create/") <= 1
    /\ home.loading <=> (Submissions("reports/create/") = 1)
    /\ Submissions("detective/reports/") <= 1
    /\ det.loading <=> (Submissions("detective/reports/") = 1)

\* C25 (step form): a step that issues one of the four submissions starts
\* from a state in which that screen was not loading.
C25_NoSubmitWhileLoading ==
    [][/\ Issues("POST", "auth/login/") => ~loginLoading
       /\ Issues("POST", "auth/register/") => ~reg.loading
       /\ Issues("POST", "reports/create/") => ~home.loading
       /\ Issues("POST", "detective/reports/") => ~det.loading]_vars

\* A waste report is in flight, the screen is loading, and another call of
\* the app could still be issued (the limit on calls is not what stops a
\* second submission).
C25_Witness ==
    /\ focus = "Home"
    /\ home.loading
    /\ Submissions("reports/create/") = 1
    /\ net # <<>>
    /\ Pending < MaxPending
    /\ ~HomeBinIdMissing(home)


\* fetchReports calls that were issued and have not settled.
FetchesOut ==
    Cardinality({k \in 1..Len(storageQueue) :
                    /\ storageQueue[k].kind = "request"
                    /\ storageQueue[k].req.method = "GET"
                    /\ storageQueue[k].req.path = "detective/reports/"})
    + Cardinality({k \in 1..Len(callbackQueue) :
                    /\ callbackQueue[k].op.kind = "request"
                    /\ callbackQueue[k].op.req.method = "GET"
                    /\ callbackQueue[k].op.req.path = "detective/reports/"})
    + FetchRank(Len(net))

\* C26: on the Detective screen, once no report-list fetch is outstanding
\* the list displayed is not one written by a fetch issued before another
\* whose response had already been applied: the mount-time fetch never
\* overwrites the result of the re-fetch that follows a submission.
C26_LatestFetchWins ==
    (focus = "Detective" /\ FetchesOut = 0) => lastEvent.type # "fetch_stale"

====
